---- MODULE Spec2Model ----
(***************************************************************************)
(* Model of script.py: the pyRevit batch rename of the "Framing Elevation" *)
(* views placed on sheets.                                                 *)
(*                                                                         *)
(* The host document is a sequence of sheets, each a sequence of           *)
(* viewports; a viewport is represented by the ViewId it resolves to       *)
(* (doc.GetElement(vp_id).ViewId).  The views of the document are the ids  *)
(* in DOMAIN names; an id a viewport holds that is outside DOMAIN names    *)
(* resolves to no element (doc.GetElement returns None).                   *)
(*                                                                         *)
(* The script is a linear program; pc is its position.  The host           *)
(* transaction API is modelled by what it does to the document: a          *)
(* Transaction that is disposed while started is rolled back, and          *)
(* TransactionGroup.RollBack undoes every sub-transaction committed since  *)
(* TransactionGroup.Start.                                                 *)
(***************************************************************************)
EXTENDS Integers, Sequences, FiniteSets, TLC

VARIABLES
    sheets,                   \* the document: sheets[s][i] is the ViewId of viewport i of sheet s
    names,                    \* the document: view id -> view.Name
    framing_elevation_views,  \* the dict of line 15, as its keys in insertion order
    si, vi,                   \* position of the two discovery loops (lines 23, 29)
    pc,                       \* position of the script
    new_base_name,            \* line 47
    renamed_count, counter,   \* lines 60, 61
    views_to_process,         \* line 62: the dict's values in iteration order
    idx,                      \* position of the rename loop (line 68)
    final_new_name,           \* line 70
    exc,                      \* the exception caught at line 79
    alerts,                   \* the forms.alert calls so far: <<[title, message]>>
    prompts,                  \* the number of forms.ask_for_string calls so far
    tgStarts, tgRollBacks, tgAssimilates,  \* calls that took effect on the TransactionGroup
    tStarts, tOpen,           \* sub-transactions started so far, and started but not yet ended
    tgSaved, tSaved,          \* the names at tg.Start() and at the open t.Start()
    names0,                   \* history: the names before the run
    failed,                   \* history: <<view id, step>> of the rename that raised, or <<>>
    outcome                   \* history: how the run ended

vars == << sheets, names, framing_elevation_views, si, vi, pc, new_base_name,
           renamed_count, counter, views_to_process, idx, final_new_name, exc,
           alerts, prompts, tgStarts, tgRollBacks, tgAssimilates, tStarts, tOpen,
           tgSaved, tSaved, names0, failed, outcome >>

-----------------------------------------------------------------------------
(* Bounds of the model *)

MaxSheets == 2
MaxViewports == 2
MaxViews == 2

-----------------------------------------------------------------------------
(* Constants of the script and of the host *)

InvalidElementId == -1

TargetName == "Framing Elevation"

\* Python's None where a string is expected (no text of Answers equals it)
None == "<None>"

\* Python's None where an element is expected (no element has this id)
NoElement == 0

ViewNames == {TargetName, "Plan"}

\* What forms.ask_for_string can return: None on cancel, or the text entered
\* (possibly empty; the dialog's default is "Framing Elevation Old").
Answers == {None, "", "Old FE", "Framing Elevation Old"}

Errors == {"Name must be unique"}

ViewIds == 1 .. MaxViews

Range(s) == {s[i] : i \in DOMAIN s}

SeqsUpTo(S, n) == UNION {[1 .. k -> S] : k \in 0 .. n}

RECURSIVE TotalLen(_)
TotalLen(ss) == IF ss = << >> THEN 0 ELSE Len(Head(ss)) + TotalLen(Tail(ss))

\* Every document within the bounds: at most MaxSheets sheets holding at most
\* MaxViewports viewports in all, each viewport holding InvalidElementId or an id.
Documents ==
    {ss \in SeqsUpTo(SeqsUpTo(ViewIds \cup {InvalidElementId}, MaxViewports), MaxSheets) :
        TotalLen(ss) <= MaxViewports}

NameTables == UNION {[1 .. n -> ViewNames] : n \in 0 .. MaxViews}

-----------------------------------------------------------------------------
(* Discovery, lines 15-38 *)

\* doc.GetElement(view_id), line 35: the view, or None
GetElement(view_id) == IF view_id \in DOMAIN names THEN view_id ELSE NoElement

\* Variant of MatchesTarget: the name is not compared (every placed view is kept)
MatchesTargetAnyName(view) == view # NoElement

\* Variant of MatchesTarget: the comparison is inverted
MatchesTargetInverted(view) == view # NoElement /\ names[view] # TargetName

\* line 37: view and view.Name == "Framing Elevation"
MatchesTarget(view) == view # NoElement /\ names[view] = TargetName

\* Variant of Discovered: the views are collected in a list without the
\* "not in" test of line 34
DiscoveredNoDedup(map, view_id) ==
    IF view_id # InvalidElementId
    THEN IF MatchesTarget(GetElement(view_id)) THEN Append(map, view_id) ELSE map
    ELSE map

\* lines 34-38 for one viewport: the dict after the viewport has been visited
Discovered(map, view_id) ==
    IF view_id # InvalidElementId /\ view_id \notin Range(map)
    THEN IF MatchesTarget(GetElement(view_id)) THEN Append(map, view_id) ELSE map
    ELSE map

\* line 26: if not viewport_ids: continue
SkipEmptySheet ==
    /\ pc = "discover"
    /\ si <= Len(sheets)
    /\ sheets[si] = << >>
    /\ si' = si + 1
    /\ UNCHANGED << sheets, names, framing_elevation_views, vi, pc, new_base_name,
                    renamed_count, counter, views_to_process, idx, final_new_name,
                    exc, alerts, prompts, tgStarts, tgRollBacks, tgAssimilates,
                    tStarts, tOpen, tgSaved, tSaved, names0, failed, outcome >>

\* lines 29-38: one iteration of the inner loop
VisitViewport ==
    /\ pc = "discover"
    /\ si <= Len(sheets)
    /\ vi <= Len(sheets[si])
    /\ framing_elevation_views' = Discovered(framing_elevation_views, sheets[si][vi])
    /\ IF vi < Len(sheets[si])
       THEN vi' = vi + 1 /\ si' = si
       ELSE vi' = 1 /\ si' = si + 1
    /\ UNCHANGED << sheets, names, pc, new_base_name, renamed_count, counter,
                    views_to_process, idx, final_new_name, exc, alerts, prompts,
                    tgStarts, tgRollBacks, tgAssimilates, tStarts, tOpen, tgSaved,
                    tSaved, names0, failed, outcome >>

-----------------------------------------------------------------------------
(* Guards and prompt, lines 40-57 *)

Alert(title, message) == [title |-> title, message |-> message]

\* Variant of IsEmpty: the dict is compared with None, which it never is
IsEmptyNever(map) == FALSE

\* line 41: not framing_elevation_views
IsEmpty(map) == Len(map) = 0

\* lines 41-44
EmptyGuard ==
    /\ pc = "discover"
    /\ si > Len(sheets)
    /\ IsEmpty(framing_elevation_views)
    /\ alerts' = Append(alerts, Alert("No Views Found",
                    "No 'Framing Elevation' views were found on any sheets."))
    /\ pc' = "done"
    /\ outcome' = "empty"
    /\ UNCHANGED << sheets, names, framing_elevation_views, si, vi, new_base_name,
                    renamed_count, counter, views_to_process, idx, final_new_name,
                    exc, prompts, tgStarts, tgRollBacks, tgAssimilates, tStarts,
                    tOpen, tgSaved, tSaved, names0, failed >>

\* lines 47-52
AskForString ==
    /\ pc = "discover"
    /\ si > Len(sheets)
    /\ ~IsEmpty(framing_elevation_views)
    /\ prompts' = prompts + 1
    /\ \E answer \in Answers : new_base_name' = answer
    /\ pc' = "check_name"
    /\ UNCHANGED << sheets, names, framing_elevation_views, si, vi, renamed_count,
                    counter, views_to_process, idx, final_new_name, exc, alerts,
                    tgStarts, tgRollBacks, tgAssimilates, tStarts, tOpen, tgSaved,
                    tSaved, names0, failed, outcome >>

\* Variant of IsCancelled: only None is tested (new_base_name is None)
IsCancelledNoneOnly(answer) == answer = None

\* line 55: not new_base_name
IsCancelled(answer) == answer = None \/ answer = ""

\* lines 55-57
Cancelled ==
    /\ pc = "check_name"
    /\ IsCancelled(new_base_name)
    /\ alerts' = Append(alerts, Alert("Cancelled",
                    "Operation cancelled. No views were renamed."))
    /\ pc' = "done"
    /\ outcome' = "cancelled"
    /\ UNCHANGED << sheets, names, framing_elevation_views, si, vi, new_base_name,
                    renamed_count, counter, views_to_process, idx, final_new_name,
                    exc, prompts, tgStarts, tgRollBacks, tgAssimilates, tStarts,
                    tOpen, tgSaved, tSaved, names0, failed >>

-----------------------------------------------------------------------------
(* Batch rename, lines 59-85 *)

\* line 62: framing_elevation_views.values().  The script runs under pyRevit's
\* default engine (IronPython 2.7, no "#! python3" line), whose dict iterates in
\* hash-table order: any order of the entries, the same for the whole loop.
IterationOrders(map) ==
    {p \in [1 .. Len(map) -> Range(map)] : \A i, j \in 1 .. Len(map) : p[i] = p[j] => i = j}

\* Variant of FormatName: the numbering starts at 0
FormatNameFromZero(base, n) == base \o " - " \o ToString(n - 1)

\* line 70: "{} - {}".format(new_base_name, counter)
FormatName(base, n) == base \o " - " \o ToString(n)

\* Variant of Incremented: the counters are not advanced
IncrementedNot(n) == n

\* lines 77, 78: renamed_count += 1, counter += 1
Incremented(n) == n + 1

\* Variant of Ended: the transaction is left started
EndedStillOpen(open) == open

\* Transaction.Commit and Transaction.Dispose end the transaction
Ended(open) == open - 1

\* Transaction.Dispose on a started transaction (leaving the with block of line 73
\* by an exception) rolls it back: the names are those at t.Start()
DisposeRollBack(saved, current) == saved

\* Variant of GroupRollBack: the committed sub-transactions are kept
GroupRollBackKept(saved, current) == current

\* TransactionGroup.RollBack, line 81: the names are those at tg.Start()
GroupRollBack(saved, current) == saved

\* Variant of ExitAfterRollBack: the script goes on to the final report
ExitAfterRollBackMissing == "report"

\* script.exit(), line 82: the script ends there
ExitAfterRollBack == "done"

\* lines 88-93
ReportMessage(count) ==
    IF count > 0
    THEN "Successfully renamed " \o ToString(count) \o " view(s)."
    ELSE "No views were renamed."

\* line 80
ErrorMessage(name, e) == "Failed to rename view '" \o name \o "'.\nError: " \o e

CurrentView == views_to_process[idx]

\* lines 60-66
StartGroup ==
    /\ pc = "check_name"
    /\ ~IsCancelled(new_base_name)
    /\ renamed_count' = 0
    /\ counter' = 1
    /\ views_to_process' \in IterationOrders(framing_elevation_views)
    /\ idx' = 1
    /\ tgStarts' = tgStarts + 1
    /\ tgSaved' = names
    /\ pc' = "loop"
    /\ UNCHANGED << sheets, names, framing_elevation_views, si, vi, new_base_name,
                    final_new_name, exc, alerts, prompts, tgRollBacks, tgAssimilates,
                    tStarts, tOpen, tSaved, names0, failed, outcome >>

\* lines 68-74: the next view, its new name, and t.Start()
StartTransaction ==
    /\ pc = "loop"
    /\ idx <= Len(views_to_process)
    /\ final_new_name' = FormatName(new_base_name, counter)
    /\ tStarts' = tStarts + 1
    /\ tOpen' = tOpen + 1
    /\ tSaved' = names
    /\ pc' = "assign"
    /\ UNCHANGED << sheets, names, framing_elevation_views, si, vi, new_base_name,
                    renamed_count, counter, views_to_process, idx, exc, alerts,
                    prompts, tgStarts, tgRollBacks, tgAssimilates, tgSaved, names0,
                    failed, outcome >>

\* lines 68-74 when t.Start() raises: no transaction is started
StartTransactionRaises ==
    /\ pc = "loop"
    /\ idx <= Len(views_to_process)
    /\ final_new_name' = FormatName(new_base_name, counter)
    /\ \E e \in Errors : exc' = e
    /\ failed' = << CurrentView, "start" >>
    /\ pc' = "except"
    /\ UNCHANGED << sheets, names, framing_elevation_views, si, vi, new_base_name,
                    renamed_count, counter, views_to_process, idx, alerts, prompts,
                    tgStarts, tgRollBacks, tgAssimilates, tStarts, tOpen, tgSaved,
                    tSaved, names0, outcome >>

\* line 75: view.Name = final_new_name
AssignName ==
    /\ pc = "assign"
    /\ names' = [names EXCEPT ![CurrentView] = final_new_name]
    /\ pc' = "commit"
    /\ UNCHANGED << sheets, framing_elevation_views, si, vi, new_base_name,
                    renamed_count, counter, views_to_process, idx, final_new_name,
                    exc, alerts, prompts, tgStarts, tgRollBacks, tgAssimilates,
                    tStarts, tOpen, tgSaved, tSaved, names0, failed, outcome >>

\* line 75 when the assignment raises; the with block disposes t
AssignNameRaises ==
    /\ pc = "assign"
    /\ \E e \in Errors : exc' = e
    /\ failed' = << CurrentView, "assign" >>
    /\ names' = DisposeRollBack(tSaved, names)
    /\ tOpen' = Ended(tOpen)
    /\ pc' = "except"
    /\ UNCHANGED << sheets, framing_elevation_views, si, vi, new_base_name,
                    renamed_count, counter, views_to_process, idx, final_new_name,
                    alerts, prompts, tgStarts, tgRollBacks, tgAssimilates, tStarts,
                    tgSaved, tSaved, names0, outcome >>

\* lines 76-78: t.Commit(), then both counters
Commit ==
    /\ pc = "commit"
    /\ tOpen' = Ended(tOpen)
    /\ renamed_count' = Incremented(renamed_count)
    /\ counter' = Incremented(counter)
    /\ idx' = idx + 1
    /\ pc' = "loop"
    /\ UNCHANGED << sheets, names, framing_elevation_views, si, vi, new_base_name,
                    views_to_process, final_new_name, exc, alerts, prompts, tgStarts,
                    tgRollBacks, tgAssimilates, tStarts, tgSaved, tSaved, names0,
                    failed, outcome >>

\* line 76 when t.Commit() raises; the with block disposes t
CommitRaises ==
    /\ pc = "commit"
    /\ \E e \in Errors : exc' = e
    /\ failed' = << CurrentView, "commit" >>
    /\ names' = DisposeRollBack(tSaved, names)
    /\ tOpen' = Ended(tOpen)
    /\ pc' = "except"
    /\ UNCHANGED << sheets, framing_elevation_views, si, vi, new_base_name,
                    renamed_count, counter, views_to_process, idx, final_new_name,
                    alerts, prompts, tgStarts, tgRollBacks, tgAssimilates, tStarts,
                    tgSaved, tSaved, names0, outcome >>

\* lines 79-80
Except ==
    /\ pc = "except"
    /\ alerts' = Append(alerts, Alert("Error", ErrorMessage(names[CurrentView], exc)))
    /\ pc' = "rollback"
    /\ UNCHANGED << sheets, names, framing_elevation_views, si, vi, new_base_name,
                    renamed_count, counter, views_to_process, idx, final_new_name,
                    exc, prompts, tgStarts, tgRollBacks, tgAssimilates, tStarts,
                    tOpen, tgSaved, tSaved, names0, failed, outcome >>

\* lines 81-82
RollBack ==
    /\ pc = "rollback"
    /\ tgRollBacks' = tgRollBacks + 1
    /\ names' = GroupRollBack(tgSaved, names)
    /\ pc' = ExitAfterRollBack
    /\ outcome' = "failure"
    /\ UNCHANGED << sheets, framing_elevation_views, si, vi, new_base_name,
                    renamed_count, counter, views_to_process, idx, final_new_name,
                    exc, alerts, prompts, tgStarts, tgAssimilates, tStarts, tOpen,
                    tgSaved, tSaved, names0, failed >>

\* line 85
Assimilate ==
    /\ pc = "loop"
    /\ idx > Len(views_to_process)
    /\ tgAssimilates' = tgAssimilates + 1
    /\ pc' = "report"
    /\ UNCHANGED << sheets, names, framing_elevation_views, si, vi, new_base_name,
                    renamed_count, counter, views_to_process, idx, final_new_name,
                    exc, alerts, prompts, tgStarts, tgRollBacks, tStarts, tOpen,
                    tgSaved, tSaved, names0, failed, outcome >>

\* lines 88-93
FinalReport ==
    /\ pc = "report"
    /\ alerts' = Append(alerts, Alert("Process Complete", ReportMessage(renamed_count)))
    /\ pc' = "done"
    /\ outcome' = "complete"
    /\ UNCHANGED << sheets, names, framing_elevation_views, si, vi, new_base_name,
                    renamed_count, counter, views_to_process, idx, final_new_name,
                    exc, prompts, tgStarts, tgRollBacks, tgAssimilates, tStarts,
                    tOpen, tgSaved, tSaved, names0, failed >>

-----------------------------------------------------------------------------
(* The run *)

Init ==
    /\ sheets \in Documents
    /\ names \in NameTables
    /\ framing_elevation_views = << >>
    /\ si = 1
    /\ vi = 1
    /\ pc = "discover"
    /\ new_base_name = None
    /\ renamed_count = 0
    /\ counter = 0
    /\ views_to_process = << >>
    /\ idx = 0
    /\ final_new_name = None
    /\ exc = None
    /\ alerts = << >>
    /\ prompts = 0
    /\ tgStarts = 0
    /\ tgRollBacks = 0
    /\ tgAssimilates = 0
    /\ tStarts = 0
    /\ tOpen = 0
    /\ tgSaved = names
    /\ tSaved = names
    /\ names0 = names
    /\ failed = << >>
    /\ outcome = "running"

Next ==
    \/ SkipEmptySheet
    \/ VisitViewport
    \/ EmptyGuard
    \/ AskForString
    \/ Cancelled
    \/ StartGroup
    \/ StartTransaction
    \/ StartTransactionRaises
    \/ AssignName
    \/ AssignNameRaises
    \/ Commit
    \/ CommitRaises
    \/ Except
    \/ RollBack
    \/ Assimilate
    \/ FinalReport

Spec == Init /\ [][Next]_vars

\* The script is one sequential program: it takes its next step while it has one.
LiveSpec == Spec /\ WF_vars(Next)

-----------------------------------------------------------------------------
(* What the properties are stated in: the document as it was before the run *)

\* the ids held by the viewports of the sheets
Placed == UNION {Range(sheets[s]) : s \in DOMAIN sheets}

\* the views that are placed on a sheet and were named "Framing Elevation"
ExpectedViews == {v \in DOMAIN names0 : v \in Placed /\ names0[v] = "Framing Elevation"}

\* the name "B - i"
ExpectedName(B, i) == B \o " - " \o ToString(i)

DiscoveryDone == pc # "discover" \/ si > Len(sheets)

InRenameLoop == pc \in {"loop", "assign", "commit"}

NoRepeats(s) == \A i, j \in DOMAIN s : s[i] = s[j] => i = j

TgOpen == tgStarts - tgRollBacks - tgAssimilates

Titles == {alerts[i].title : i \in DOMAIN alerts}

Messages == {alerts[i].message : i \in DOMAIN alerts}

-----------------------------------------------------------------------------
(* C1 *)

\* C1 (atomicity): when the rename of a view raised in the name assignment or in
\* the commit, the run ends with every name as before the run, the only
\* notification is the error naming the failing view, and the transaction group
\* was rolled back and not assimilated.
C1_Atomicity ==
    (pc = "done" /\ failed # << >> /\ failed[2] \in {"assign", "commit"}) =>
        /\ names = names0
        /\ alerts = << Alert("Error", "Failed to rename view '" \o names0[failed[1]]
                                      \o "'.\nError: " \o exc) >>
        /\ tgRollBacks = 1
        /\ tgAssimilates = 0

\* the second view fails in its commit after the first was committed
C1_Witness ==
    /\ pc = "done"
    /\ failed # << >>
    /\ failed[2] = "commit"
    /\ renamed_count = 1

-----------------------------------------------------------------------------
(* C2 *)

-----------------------------------------------------------------------------
(* C3 *)

\* C3 (deduplication): the mapping holds no view twice, however many viewports
\* hold it; the rename loop visits each discovered view once, so a view is
\* renamed at most once and a successful run has used one counter value per view.
C3_Dedup ==
    /\ NoRepeats(framing_elevation_views)
    /\ tgStarts > 0 =>
           /\ NoRepeats(views_to_process)
           /\ Range(views_to_process) = Range(framing_elevation_views)
           /\ tStarts <= Cardinality(ExpectedViews)
    /\ outcome = "complete" => counter - 1 = Cardinality(ExpectedViews)

\* a view named "Framing Elevation" held by two viewports, renamed
C3_Witness ==
    /\ outcome = "complete"
    /\ \E s1, s2 \in DOMAIN sheets : \E i \in DOMAIN sheets[s1] : \E j \in DOMAIN sheets[s2] :
           /\ << s1, i >> # << s2, j >>
           /\ sheets[s1][i] = sheets[s2][j]
           /\ sheets[s1][i] \in ExpectedViews

-----------------------------------------------------------------------------
(* C4 *)

-----------------------------------------------------------------------------
(* C5 *)

\* C5 (empty guard): once Discovery has ended with an empty mapping, no prompt
\* is shown, no transaction group or transaction is started, no name changes,
\* and the run ends with the "no views found" notification alone.
C5_EmptyGuard ==
    (DiscoveryDone /\ framing_elevation_views = << >>) =>
        /\ prompts = 0
        /\ tgStarts = 0
        /\ tStarts = 0
        /\ names = names0
        /\ pc \in {"discover", "done"}
        /\ pc = "discover" => alerts = << >>
        /\ pc = "done" =>
               alerts = << Alert("No Views Found",
                                 "No 'Framing Elevation' views were found on any sheets.") >>

\* the run ended on a document that has sheets and viewports but no matching view
C5_Witness ==
    /\ pc = "done"
    /\ framing_elevation_views = << >>
    /\ Placed \cap DOMAIN names0 # {}

-----------------------------------------------------------------------------
(* C6 *)

\* C6 (cancellation): once the prompt has returned no value or the empty string,
\* no transaction group or transaction is started, no name changes, and the run
\* ends with the "cancelled" notification alone.
C6_Cancellation ==
    (prompts > 0 /\ new_base_name \in {None, ""}) =>
        /\ framing_elevation_views # << >>
        /\ prompts = 1
        /\ tgStarts = 0
        /\ tStarts = 0
        /\ names = names0
        /\ pc \in {"check_name", "done"}
        /\ pc = "check_name" => alerts = << >>
        /\ pc = "done" =>
               alerts = << Alert("Cancelled", "Operation cancelled. No views were renamed.") >>

\* the run ended after the prompt returned the empty string
C6_Witness ==
    /\ pc = "done"
    /\ prompts = 1
    /\ new_base_name = ""

-----------------------------------------------------------------------------
(* C7 *)

OutcomeTitle ==
    [empty |-> "No Views Found", cancelled |-> "Cancelled",
     failure |-> "Error", complete |-> "Process Complete"]

\* C7 (termination, one notification): every run ends, in one of the four
\* terminal states, and a run shows no notification before its end and
\* exactly one, that of its terminal state, at its end.
C7_OneNotification ==
    /\ <>(pc = "done")
    /\ [](pc = "done" =>
            /\ outcome \in {"empty", "cancelled", "failure", "complete"}
            /\ Len(alerts) = 1
            /\ alerts[1].title = OutcomeTitle[outcome])
    /\ [](Len(alerts) <= 1)
    /\ []((pc # "done" /\ pc # "rollback") => (alerts = << >> /\ outcome = "running"))

\* a run that ended after a failed rename
C7_Witness ==
    /\ pc = "done"
    /\ outcome = "failure"
    /\ Len(alerts) = 1

-----------------------------------------------------------------------------
(* C8 *)

\* C8 (transaction discipline): a name is set to a new value only while a
\* sub-transaction is started; a sub-transaction is started only while the
\* transaction group is; at most one sub-transaction is open; the group is
\* started at most once, and, when started, ended once, by one of RollBack or
\* Assimilate, with no sub-transaction open.
C8_Discipline ==
    /\ [](/\ tOpen \in {0, 1}
          /\ tOpen = 1 => TgOpen = 1
          /\ tgStarts \in {0, 1}
          /\ TgOpen \in {0, 1}
          /\ tgRollBacks + tgAssimilates <= 1
          /\ (pc = "done" /\ tgStarts = 1) => tgRollBacks + tgAssimilates = 1
          /\ tgStarts = 0 => names = names0)
    /\ [][/\ (\E v \in DOMAIN names : names'[v] # names[v] /\ names'[v] # names0[v])
                => (tOpen = 1 /\ TgOpen = 1 /\ tOpen' = 1 /\ TgOpen' = 1)
          /\ tStarts' # tStarts => (tOpen = 0 /\ TgOpen = 1)
          /\ (tgRollBacks' # tgRollBacks \/ tgAssimilates' # tgAssimilates)
                => (tOpen = 0 /\ TgOpen = 1 /\ TgOpen' = 0)]_vars

\* two sub-transactions committed and the group assimilated
C8_Witness ==
    /\ pc = "done"
    /\ tgAssimilates = 1
    /\ tStarts = 2

-----------------------------------------------------------------------------
(* C9 *)

\* C9 (final report): a "Process Complete" notification is shown only after
\* every rename succeeded and the group was assimilated; it is the success
\* message with the number of discovered views, which is at least 1; the
\* message "No views were renamed." is never shown.
C9_FinalReport ==
    /\ "No views were renamed." \notin Messages
    /\ "Process Complete" \in Titles =>
           /\ failed = << >>
           /\ tgAssimilates = 1
           /\ tgRollBacks = 0
           /\ Cardinality(ExpectedViews) >= 1
           /\ renamed_count = Cardinality(ExpectedViews)
           /\ \A v \in ExpectedViews : names[v] # names0[v]
           /\ alerts = << Alert("Process Complete",
                                "Successfully renamed "
                                \o ToString(Cardinality(ExpectedViews)) \o " view(s).") >>

\* the report of a run that renamed two views
C9_Witness ==
    /\ "Process Complete" \in Titles
    /\ renamed_count = 2

-----------------------------------------------------------------------------
(* C10 *)

\* C10 (frame): no step changes the sheets, the viewports or the set of view
\* ids; a step that changes the name of a view changes that of a placed view
\* that was named "Framing Elevation", and is no step of Discovery.
C10_Frame ==
    [][/\ sheets' = sheets
       /\ DOMAIN names' = DOMAIN names
       /\ \A v \in DOMAIN names :
              names'[v] # names[v] => (v \in ExpectedViews /\ pc # "discover")]_vars

\* a view was renamed in a document that has a view outside the discovered set
C10_Witness ==
    /\ names # names0
    /\ DOMAIN names0 \ ExpectedViews # {}

====
